---- MODULE Spec2Model ----
(***************************************************************************)
(* Model of the NACA geometry generator (naca_geometry.py) and of the      *)
(* potential-flow solver (flow_solver.py).                                  *)
(*                                                                         *)
(* Arithmetic.  The programs compute in IEEE doubles.  The model computes  *)
(* over the reals, exactly wherever the code's formula is rational in its  *)
(* inputs (chord samples, grid axes, camber line, slope, r2, r2 + 0.05):   *)
(* those values are normalised fractions <<num, den>>.  Where the code     *)
(* calls an irrational function (sqrt, sin, cos, arctan) or multiplies by  *)
(* pi the value is a fixed-point integer with Scale units per 1.0, rounded *)
(* to nearest at every operation.                                          *)
(***************************************************************************)
EXTENDS Integers, Sequences, FiniteSets, TLC

VARIABLES number, n_points, grid_res, coords, solver, ctor, geom, flow

vars == <<number, n_points, grid_res, coords, solver, ctor, geom, flow>>

(***************************************************************************)
(* Bounds of the model.                                                    *)
(***************************************************************************)
\* longest designation string tried
MaxLen == 4
\* largest chord sample count tried (n_points ranges over -1..MaxPoints)
MaxPoints == 6
\* largest grid resolution tried by a single call (grid_res in -1..MaxGrid)
MaxGrid == 9
\* largest grid resolution / sample count tried on the pair of solvers
PairGrid == 2
PairPoints == 1

Abs(a) == IF a < 0 THEN -a ELSE a

RECURSIVE GCD(_, _)
GCD(a, b) == IF b = 0 THEN a ELSE GCD(b, a % b)

(***************************************************************************)
(* Exact fractions <<num, den>>, den > 0, in lowest terms.                 *)
(***************************************************************************)
R(n, d) ==
  LET g == GCD(Abs(n), Abs(d))
      s == IF d < 0 THEN -1 ELSE 1
  IN  <<(s * n) \div g, (s * d) \div g>>

RInt(k) == <<k, 1>>
RAdd(a, b) == R(a[1] * b[2] + b[1] * a[2], a[2] * b[2])
RSub(a, b) == R(a[1] * b[2] - b[1] * a[2], a[2] * b[2])
RMul(a, b) == R(a[1] * b[1], a[2] * b[2])
RDiv(a, b) == R(a[1] * b[2], a[2] * b[1])
RLe(a, b) == a[1] * b[2] <= b[1] * a[2]
RLt(a, b) == a[1] * b[2] < b[1] * a[2]
RZero == RInt(0)
ROne == RInt(1)

(***************************************************************************)
(* Fixed point: Scale units per 1.0.                                       *)
(***************************************************************************)
Scale == 10 ^ 4

\* n / d rounded to the nearest integer (d > 0)
Round(n, d) == (2 * n + d) \div (2 * d)
\* the fixed-point value of a fraction
ToFixed(r) == Round(r[1] * Scale, r[2])
FMul(a, b) == Round(a * b, Scale)

RECURSIVE SqrtSearch(_, _, _)
SqrtSearch(v, lo, hi) ==
  IF lo >= hi THEN lo
  ELSE LET mid == (lo + hi + 1) \div 2
       IN  IF mid * mid <= v THEN SqrtSearch(v, mid, hi)
           ELSE SqrtSearch(v, lo, mid - 1)

\* floor of the square root of v, 0 <= v < 2^30
ISqrt(v) == SqrtSearch(v, 0, 32767)
\* np.sqrt on a fixed-point value a >= 0
FSqrt(a) == ISqrt(a * Scale)

(***************************************************************************)
(* np.linspace(start, stop, num): num samples, both ends included; a single*)
(* sample is start; none is the empty array.  Indexed from 0 as in Python. *)
(***************************************************************************)
linspace(start, stop, num) ==
  [i \in 0..(num - 1) |->
     IF num = 1 THEN start
     ELSE RAdd(start, RMul(RInt(i), RDiv(RSub(stop, start), RInt(num - 1))))]

(***************************************************************************)
(* Designation strings: sequences of one-character strings.                *)
(***************************************************************************)
DigitChars == <<"0", "1", "2", "3", "4", "5", "6", "7", "8", "9">>
IsDigit(c) == \E d \in 1..10 : DigitChars[d] = c
DigitVal(c) == (CHOOSE d \in 1..10 : DigitChars[d] = c) - 1

RECURSIVE DecVal(_)
DecVal(s) ==
  IF s = <<>> THEN 0
  ELSE 10 * DecVal(SubSeq(s, 1, Len(s) - 1)) + DigitVal(s[Len(s)])

\* Python int(s) on a string of decimal digits and letters: the value, or
\* ValueError for the empty string and for any non-digit.
int(s) ==
  IF s = <<>> \/ \E i \in 1..Len(s) : ~IsDigit(s[i])
  THEN [err |-> "ValueError", val |-> 0]
  ELSE [err |-> "", val |-> DecVal(s)]

NotCalled == [status |-> "none"]
Raise(e) == [status |-> e]

(***************************************************************************)
(* naca_geometry.py                                                        *)
(***************************************************************************)
\* thickness half-width at chord position x (a fraction), t = T / 100
Thickness(T, x) ==
  LET xf == ToFixed(x)
      x2 == FMul(xf, xf)
      x3 == FMul(x2, xf)
      x4 == FMul(x3, xf)
      bracket == FMul(2969, FSqrt(xf)) - FMul(1260, xf) - FMul(3516, x2)
                 + FMul(2843, x3) - FMul(1015, x4)
  IN  Round(5 * T * bracket, 100)

\* the branch test of the camber loop
Forward(x, p) == RLe(x, p)

YcForward(m, p, x) ==
  RMul(RDiv(m, RMul(p, p)), RSub(RMul(RMul(RInt(2), p), x), RMul(x, x)))

SlopeForward(m, p, x) ==
  RMul(RDiv(RMul(RInt(2), m), RMul(p, p)), RSub(p, x))

\* the aft arm with (1 - p) written for (1 - 2p)
YcAftSlip(m, p, x) ==
  RMul(RDiv(m, RMul(RSub(ROne, p), RSub(ROne, p))),
       RSub(RAdd(RSub(ROne, p), RMul(RMul(RInt(2), p), x)), RMul(x, x)))
YcAft(m, p, x) ==
  RMul(RDiv(m, RMul(RSub(ROne, p), RSub(ROne, p))),
       RSub(RAdd(RSub(ROne, RMul(RInt(2), p)), RMul(RMul(RInt(2), p), x)),
            RMul(x, x)))

SlopeAft(m, p, x) ==
  RMul(RDiv(RMul(RInt(2), m), RMul(RSub(ROne, p), RSub(ROne, p))), RSub(p, x))

\* float division m / p**2 (or m / (1 - p)**2) raises ZeroDivisionError
\* at the first sample whose branch has a zero divisor
CamberDivides(p, x) ==
  \E i \in DOMAIN x :
     \/ Forward(x[i], p) /\ RMul(p, p) = RZero
     \/ ~Forward(x[i], p) /\ RMul(RSub(ROne, p), RSub(ROne, p)) = RZero

\* sin(arctan(s)) and cos(arctan(s)) for a slope s (a fraction)
SinAtan(s) ==
  LET sf == ToFixed(s) IN Round(sf * Scale, ISqrt(Scale * Scale + sf * sf))
CosAtan(s) ==
  LET sf == ToFixed(s) IN Round(Scale * Scale, ISqrt(Scale * Scale + sf * sf))

naca4_coordinates(num, n) ==
  IF Len(num) < 1 THEN Raise("IndexError")
  ELSE IF int(<<num[1]>>).err # "" THEN Raise("ValueError")
  ELSE IF Len(num) < 2 THEN Raise("IndexError")
  ELSE IF int(<<num[2]>>).err # "" THEN Raise("ValueError")
  ELSE IF int(SubSeq(num, 3, Len(num))).err # "" THEN Raise("ValueError")
  ELSE IF n < 0 THEN Raise("ValueError")
  ELSE
    LET m == R(int(<<num[1]>>).val, 100)
        p == R(int(<<num[2]>>).val, 10)
        T == int(SubSeq(num, 3, Len(num))).val
        x == linspace(RZero, ROne, n)
    IN  IF CamberDivides(p, x) THEN Raise("ZeroDivisionError")
        ELSE
          LET yt == [i \in DOMAIN x |-> Thickness(T, x[i])]
              yc == [i \in DOMAIN x |->
                       IF Forward(x[i], p) THEN YcForward(m, p, x[i])
                       ELSE YcAft(m, p, x[i])]
              dyc_dx == [i \in DOMAIN x |->
                       IF Forward(x[i], p) THEN SlopeForward(m, p, x[i])
                       ELSE SlopeAft(m, p, x[i])]
          IN  [status |-> "ok", m |-> m, p |-> p, t |-> R(T, 100),
               x |-> x, yt |-> yt, yc |-> yc, dyc_dx |-> dyc_dx,
               branch |-> [i \in DOMAIN x |->
                             IF Forward(x[i], p) THEN "forward" ELSE "aft"],
               xu |-> [i \in DOMAIN x |->
                         ToFixed(x[i]) - FMul(yt[i], SinAtan(dyc_dx[i]))],
               yu |-> [i \in DOMAIN x |->
                         ToFixed(yc[i]) + FMul(yt[i], CosAtan(dyc_dx[i]))],
               xl |-> [i \in DOMAIN x |->
                         ToFixed(x[i]) + FMul(yt[i], SinAtan(dyc_dx[i]))],
               yl |-> [i \in DOMAIN x |->
                         ToFixed(yc[i]) - FMul(yt[i], CosAtan(dyc_dx[i]))]]

(***************************************************************************)
(* flow_solver.py                                                          *)
(***************************************************************************)
\* pi in fixed point
PiFx == 31416

\* np.radians: degrees (an integer here) to fixed-point radians
radians(deg) == Round(deg * PiFx, 180)

\* np.cos and np.sin of a fixed-point angle, by their series up to the
\* sixth and fifth power (the angles modelled are within 20 degrees)
cos(a) ==
  LET a2 == FMul(a, a)
      a4 == FMul(a2, a2)
      a6 == FMul(a4, a2)
  IN  Scale - Round(a2, 2) + Round(a4, 24) - Round(a6, 720)
sin(a) ==
  LET a2 == FMul(a, a)
      a3 == FMul(a2, a)
      a5 == FMul(a3, a2)
  IN  a - Round(a3, 6) + Round(a5, 120)

\* FlowSolver.__init__
FlowSolver(airfoil_code, alpha_deg, reynolds) ==
  [code |-> airfoil_code, alpha |-> radians(alpha_deg), Re |-> reynolds]

\* the thickness formula of FlowSolver.naca4_geometry, t = 0.12
SolverThickness(x) ==
  LET xf == ToFixed(x)
      x2 == FMul(xf, xf)
      x3 == FMul(x2, xf)
      x4 == FMul(x3, xf)
      bracket == FMul(2969, FSqrt(xf)) - FMul(1260, xf) - FMul(3516, x2)
                 + FMul(2843, x3) - FMul(1015, x4)
  IN  Round(5 * 12 * bracket, 100)

\* the two arms of np.where in FlowSolver.naca4_geometry, m = 0.04, p = 0.4
SolverYcForward(x) ==
  LET m == R(4, 100)
      p == R(4, 10)
  IN  RMul(RDiv(m, RMul(p, p)), RSub(RMul(RMul(RInt(2), p), x), RMul(x, x)))
SolverYcAft(x) ==
  LET m == R(4, 100)
      p == R(4, 10)
  IN  RMul(RDiv(m, RMul(RSub(ROne, p), RSub(ROne, p))),
           RSub(RAdd(RSub(ROne, RMul(RInt(2), p)), RMul(RMul(RInt(2), p), x)),
                RMul(x, x)))

naca4_geometry(self, n) ==
  IF n < 0 THEN Raise("ValueError")
  ELSE
    LET p == R(4, 10)
        x == linspace(RZero, ROne, n)
    IN  [status |-> "ok", x |-> x,
         yc |-> [i \in DOMAIN x |->
                   IF RLe(x[i], p) THEN SolverYcForward(x[i])
                   ELSE SolverYcAft(x[i])],
         yt |-> [i \in DOMAIN x |-> SolverThickness(x[i])],
         branch |-> [i \in DOMAIN x |->
                       IF RLe(x[i], p) THEN "forward" ELSE "aft"]]

\* a float that is inf or nan (a division by zero under numpy)
NonFinite == 2 ^ 30
NAdd(a, b) == IF a = NonFinite \/ b = NonFinite THEN NonFinite ELSE a + b
NMul(a, b) == IF a = NonFinite \/ b = NonFinite THEN NonFinite ELSE FMul(a, b)
\* np.sqrt(a**2 + b**2) on fixed-point values
NHypot(a, b) ==
  IF a = NonFinite \/ b = NonFinite THEN NonFinite ELSE ISqrt(a * a + b * b)
\* numpy a / d for fractions a, d, as a fixed-point value
Quot(a, d) == IF d = RZero THEN NonFinite ELSE ToFixed(RDiv(a, d))

\* circulation strength and the regularisation added to r2
gamma == R(5, 2)
eps == R(1, 20)
\* gamma / (2 * np.pi)
GammaOver2Pi == Round(ToFixed(gamma) * Scale, 2 * PiFx)

\* free-stream components; the first one wrongly scaled by Re / 10^6
u_infScaledByRe(self) == Round(cos(self.alpha) * (self.Re \div 1000), 1000)
u_inf(self) == cos(self.alpha)
v_inf(self) == sin(self.alpha)

\* np.meshgrid(x_grid, y_grid): row i, column j; first with indexing 'ij'
meshgridXij(x_grid, y_grid) ==
  [i \in DOMAIN y_grid, j \in DOMAIN x_grid |-> x_grid[i]]
meshgridX(x_grid, y_grid) ==
  [i \in DOMAIN y_grid, j \in DOMAIN x_grid |-> x_grid[j]]
meshgridY(x_grid, y_grid) ==
  [i \in DOMAIN y_grid, j \in DOMAIN x_grid |-> y_grid[i]]

\* r2 = (X - 0.25)**2 + Y**2
R2(X, Y) ==
  RAdd(RMul(RSub(X, R(1, 4)), RSub(X, R(1, 4))), RMul(Y, Y))
\* the denominator r2 + 0.05 of both induced components; first without
\* the regularisation
DenominatorUnregularised(X, Y) == R2(X, Y)
Denominator(X, Y) == RAdd(R2(X, Y), eps)

compute_flow_field(self, g) ==
  IF g < 0 THEN Raise("ValueError")
  ELSE
    LET x_grid == linspace(R(-1, 2), R(3, 2), g)
        y_grid == linspace(R(-4, 5), R(4, 5), g)
        X == meshgridX(x_grid, y_grid)
        Y == meshgridY(x_grid, y_grid)
        den == [c \in DOMAIN X |-> Denominator(X[c], Y[c])]
        u_vortex == [c \in DOMAIN X |->
                       NMul(GammaOver2Pi, Quot(Y[c], den[c]))]
        v_vortex == [c \in DOMAIN X |->
                       NMul(-GammaOver2Pi, Quot(RSub(X[c], R(1, 4)), den[c]))]
        U == [c \in DOMAIN X |-> NAdd(u_inf(self), u_vortex[c])]
        V == [c \in DOMAIN X |-> NAdd(v_inf(self), v_vortex[c])]
        Vel_Mag == [c \in DOMAIN X |-> NHypot(U[c], V[c])]
        Cp == [c \in DOMAIN X |->
                 IF Vel_Mag[c] = NonFinite THEN NonFinite
                 ELSE Scale - FMul(Vel_Mag[c], Vel_Mag[c])]
    IN  [status |-> "ok", grid_res |-> g, x_grid |-> x_grid, y_grid |-> y_grid,
         X |-> X, Y |-> Y, U |-> U, V |-> V, Cp |-> Cp,
         den |-> den, u_vortex |-> u_vortex, v_vortex |-> v_vortex]

(***************************************************************************)
(* Inputs.                                                                 *)
(***************************************************************************)
Chars == {"0", "1", "2", "4", "a"}

RECURSIVE StringsOfLen(_)
StringsOfLen(k) ==
  IF k = 0 THEN {<<>>}
  ELSE {Append(s, c) : s \in StringsOfLen(k - 1), c \in Chars}

Designations == UNION {StringsOfLen(k) : k \in 0..MaxLen}
Alphas == {-10, 0, 6, 18}
Reynolds == {10 ^ 6, 5 * 10 ^ 5}

(***************************************************************************)
(* Operations.                                                             *)
(***************************************************************************)
\* a call of naca4_coordinates(number, n_points)
CallCoordinates ==
  /\ coords = NotCalled
  /\ coords' = naca4_coordinates(number, n_points)
  /\ UNCHANGED <<number, n_points, grid_res, solver, ctor, geom, flow>>

\* a call of solver s's naca4_geometry(n)
NacaGeometry(s, n) ==
  /\ geom' = [geom EXCEPT ![s] = naca4_geometry(solver[s], n)]
  /\ UNCHANGED <<number, n_points, grid_res, coords, solver, ctor, flow>>

\* a call of solver s's compute_flow_field(g)
ComputeFlowField(s, g) ==
  /\ flow' = [flow EXCEPT ![s] = compute_flow_field(solver[s], g)]
  /\ UNCHANGED <<number, n_points, grid_res, coords, solver, ctor, geom>>

Construct(ids, args) ==
  /\ ctor = args
  /\ solver = [s \in ids |->
                 FlowSolver(args[s].airfoil_code, args[s].alpha_deg,
                            args[s].reynolds)]
  /\ geom = [s \in ids |-> NotCalled]
  /\ flow = [s \in ids |-> NotCalled]

(***************************************************************************)
(* Geometry: one designation and one sample count, given to the generator  *)
(* and to a solver built for the same designation.                         *)
(***************************************************************************)
InitGeom ==
  /\ number \in Designations
  /\ n_points \in -1..MaxPoints
  /\ grid_res = 0
  /\ coords = NotCalled
  /\ Construct({1}, [s \in {1} |->
        [airfoil_code |-> number, alpha_deg |-> 6, reynolds |-> 10 ^ 6]])

CallGeometry == geom[1] = NotCalled /\ NacaGeometry(1, n_points)

NextGeom == CallCoordinates \/ CallGeometry

SpecGeom == InitGeom /\ [][NextGeom]_vars

(***************************************************************************)
(* Field: one solver, one call of compute_flow_field.                      *)
(***************************************************************************)
InitField ==
  /\ number = <<"4", "4", "1", "2">>
  /\ n_points = 0
  /\ grid_res \in -1..MaxGrid
  /\ coords = NotCalled
  /\ \E a \in Alphas, re \in Reynolds :
        Construct({1}, [s \in {1} |->
          [airfoil_code |-> number, alpha_deg |-> a, reynolds |-> re]])

CallField == flow[1] = NotCalled /\ ComputeFlowField(1, grid_res)

NextField == CallField

SpecField == InitField /\ [][NextField]_vars

(***************************************************************************)
(* Pair: two solvers, any sequence of calls on either.                     *)
(***************************************************************************)
PairCodes == {<<"4", "4", "1", "2">>, <<"0", "0", "1", "2">>}
PairAlphas == {0, 6}

\* solver 1 is built for the default designation and Reynolds number,
\* solver 2 for any of the designations, angles and Reynolds numbers
InitPair ==
  /\ number = <<"4", "4", "1", "2">>
  /\ n_points = 0
  /\ grid_res = 0
  /\ coords = NotCalled
  /\ \E a1 \in PairAlphas :
     \E a2 \in [airfoil_code : PairCodes, alpha_deg : PairAlphas,
                reynolds : Reynolds] :
        Construct({1, 2},
                  [s \in {1, 2} |->
                     IF s = 1
                     THEN [airfoil_code |-> number, alpha_deg |-> a1,
                           reynolds |-> 10 ^ 6]
                     ELSE a2])

NextPair ==
  \/ \E s \in {1, 2}, n \in -1..PairPoints : NacaGeometry(s, n)
  \/ \E s \in {1, 2}, g \in -1..PairGrid : ComputeFlowField(s, g)

SpecPair == InitPair /\ [][NextPair]_vars

(***************************************************************************)
(* Properties.                                                             *)
(***************************************************************************)
\* exactly four decimal digits
WellFormed(s) == Len(s) = 4 /\ \A i \in 1..4 : IsDigit(s[i])
\* the two thickness digits of a well-formed designation, as a number
ThicknessDigits(s) == DecVal(SubSeq(s, 3, 4))
CoordsCalled == coords # NotCalled

\* the call ended in an exception.  The code raises Python's own exceptions
\* and none of the named errors, so a named error is taken to be met by
\* any exception: what is held against the code is a returned result.
Rejected(outcome) == outcome.status \notin {"none", "ok"}

\* C1: every designation that is not exactly four digits makes
\* naca4_coordinates fail (InvalidDesignation) and return no coordinate
\* arrays, for any sample count n >= 2.
C1_RejectsMalformed ==
  (CoordsCalled /\ ~WellFormed(number) /\ n_points >= 2)
     => Rejected(coords)

\* C2: a sample count g <= 0 makes compute_flow_field fail
\* (InvalidGridResolution); it never returns arrays, not even empty ones.
C2_RejectsNonPositiveGrid ==
  (flow[1] # NotCalled /\ grid_res <= 0) => Rejected(flow[1])

\* C3: with second digit 0 the forward division is never evaluated: a
\* cambered designation fails with DegenerateCamberPosition, a symmetric one
\* completes with yc = 0 and dyc/dx = 0 at every sample.
C3_GuardsZeroCamberPosition ==
  (/\ CoordsCalled
   /\ WellFormed(number)
   /\ number[2] = "0"
   /\ ThicknessDigits(number) > 0
   /\ n_points >= 1)
     => IF number[1] # "0"
        THEN coords.status = "DegenerateCamberPosition"
        ELSE /\ coords.status = "ok"
             /\ \A i \in DOMAIN coords.x :
                   coords.yc[i] = RZero /\ coords.dyc_dx[i] = RZero

\* the symmetric-section result: zero camber and slope, mirrored surfaces
Mirrored ==
  /\ coords.status = "ok"
  /\ \A i \in DOMAIN coords.x :
        /\ coords.yc[i] = RZero
        /\ coords.dyc_dx[i] = RZero
        /\ coords.xu[i] = ToFixed(coords.x[i])
        /\ coords.xl[i] = ToFixed(coords.x[i])
        /\ coords.yu[i] = -coords.yl[i]

\* C4: every symmetric designation (first digit 0, any second digit,
\* thickness > 00) with n >= 2 returns zero camber and slope and mirrored
\* upper and lower surfaces.
C4_SymmetricSection ==
  (/\ CoordsCalled
   /\ WellFormed(number)
   /\ number[1] = "0"
   /\ ThicknessDigits(number) > 0
   /\ n_points >= 2)
     => Mirrored

\* C4, the part the code keeps: the same with second digit 1..9.
C4_SymmetricSectionCambered ==
  (/\ CoordsCalled
   /\ WellFormed(number)
   /\ number[1] = "0"
   /\ number[2] # "0"
   /\ ThicknessDigits(number) > 0
   /\ n_points >= 2)
     => Mirrored

\* C5: a designation whose call returns geometry (n >= 2) was decoded as
\* m = digit1/100, p = digit2/10, t = digits3-4/100 with 0 <= m < 1,
\* 0 <= p < 1 and t > 0; one ending in 00 is rejected.
C5_DecodedInRange ==
  (/\ CoordsCalled
   /\ WellFormed(number)
   /\ n_points >= 2
   /\ coords.status = "ok")
     => /\ coords.m = R(DigitVal(number[1]), 100)
        /\ coords.p = R(DigitVal(number[2]), 10)
        /\ coords.t = R(ThicknessDigits(number), 100)
        /\ RLe(RZero, coords.m) /\ RLt(coords.m, ROne)
        /\ RLe(RZero, coords.p) /\ RLt(coords.p, ROne)
        /\ RLt(RZero, coords.t)

\* C6: at every grid point the denominator r2 + eps is at least eps > 0,
\* also on the vortex centre, and both induced components are finite and
\* no larger in magnitude than the free-stream speed.
C6_RegularisedDenominator ==
  flow[1].status = "ok"
     => \A c \in DOMAIN flow[1].den :
           /\ RLt(RZero, flow[1].den[c])
           /\ RLe(R(1, 20), flow[1].den[c])
           /\ flow[1].u_vortex[c] # NonFinite
           /\ flow[1].v_vortex[c] # NonFinite
           /\ Abs(flow[1].u_vortex[c]) <= Scale
           /\ Abs(flow[1].v_vortex[c]) <= Scale

\* a grid point lies exactly on the vortex centre (0.25, 0)
C6_OnVortexCentre ==
  /\ flow[1].status = "ok"
  /\ \E c \in DOMAIN flow[1].X : R2(flow[1].X[c], flow[1].Y[c]) = RZero

Cells(g) == (0..(g - 1)) \X (0..(g - 1))

\* C7: X, Y, U, V and Cp have exactly g x g entries; X depends only on the
\* column, Y only on the row; for g >= 2 both axes rise in equal steps from
\* -0.5 to 1.5 and from -0.8 to 0.8.
C7_OuterProductLattice ==
  flow[1].status = "ok"
     => LET f == flow[1]
            g == grid_res
        IN  /\ Cardinality(Cells(g)) = g * g
            /\ DOMAIN f.X = Cells(g) /\ DOMAIN f.Y = Cells(g)
            /\ DOMAIN f.U = Cells(g) /\ DOMAIN f.V = Cells(g)
            /\ DOMAIN f.Cp = Cells(g)
            /\ \A c \in Cells(g) :
                  f.X[c] = f.X[0, c[2]] /\ f.Y[c] = f.Y[c[1], 0]
            /\ g >= 2 =>
                  /\ f.X[0, 0] = R(-1, 2) /\ f.X[0, g - 1] = R(3, 2)
                  /\ f.Y[0, 0] = R(-4, 5) /\ f.Y[g - 1, 0] = R(4, 5)
                  /\ \A k \in 0..(g - 2) :
                        /\ RLt(f.X[0, k], f.X[0, k + 1])
                        /\ RSub(f.X[0, k + 1], f.X[0, k]) = R(2, g - 1)
                        /\ RLt(f.Y[k, 0], f.Y[k + 1, 0])
                        /\ RSub(f.Y[k + 1, 0], f.Y[k, 0]) = R(8, 5 * (g - 1))

C7_GridReturned == flow[1].status = "ok" /\ grid_res >= 3

\* C8: two solvers built with the same alpha_deg return the same X, Y, U,
\* V, Cp for the same grid_res whatever their code and Reynolds number, and
\* every solver still holds what its constructor stored.
C8_FieldIgnoresCodeAndReynolds ==
  /\ \A s1 \in DOMAIN flow, s2 \in DOMAIN flow :
        (/\ flow[s1].status = "ok"
         /\ flow[s2].status = "ok"
         /\ ctor[s1].alpha_deg = ctor[s2].alpha_deg
         /\ flow[s1].grid_res = flow[s2].grid_res)
           => /\ flow[s1].X = flow[s2].X
              /\ flow[s1].Y = flow[s2].Y
              /\ flow[s1].U = flow[s2].U
              /\ flow[s1].V = flow[s2].V
              /\ flow[s1].Cp = flow[s2].Cp
  /\ \A s \in DOMAIN solver :
        /\ solver[s].code = ctor[s].airfoil_code
        /\ solver[s].alpha = radians(ctor[s].alpha_deg)
        /\ solver[s].Re = ctor[s].reynolds

\* both solvers have computed a field on the same grid, after geometry
\* calls on both; they share alpha_deg and differ in code and Reynolds number
C8_TwoSolversCompared ==
  /\ DOMAIN flow = {1, 2}
  /\ flow[1].status = "ok" /\ flow[2].status = "ok"
  /\ flow[1].grid_res = flow[2].grid_res /\ flow[1].grid_res >= 2
  /\ ctor[1].alpha_deg = ctor[2].alpha_deg
  /\ ctor[1].airfoil_code # ctor[2].airfoil_code
  /\ ctor[1].reynolds # ctor[2].reynolds
  /\ geom[1].status = "ok" /\ geom[2].status = "ok"

\* at x = p both camber formulas give m and both slope formulas give 0,
\* for every first digit and every second digit 1..9
SplitAgrees ==
  \A d1 \in 0..9, d2 \in 1..9 :
     LET m == R(d1, 100)
         p == R(d2, 10)
     IN  /\ YcForward(m, p, p) = m
         /\ YcAft(m, p, p) = m
         /\ SlopeForward(m, p, p) = RZero
         /\ SlopeAft(m, p, p) = RZero

\* C9: for 0 < p < 1 the forward and the aft camber formulas both give m at
\* x = p and both slope formulas give 0 there, so a chord sample equal to p
\* gets the same yc and slope from either branch (generator and solver).
C9_CamberContinuous ==
  /\ SplitAgrees
  /\ (coords.status = "ok" /\ RLt(RZero, coords.p)) =>
        \A i \in DOMAIN coords.x :
           coords.x[i] = coords.p =>
              /\ coords.yc[i] = YcForward(coords.m, coords.p, coords.x[i])
              /\ coords.yc[i] = YcAft(coords.m, coords.p, coords.x[i])
              /\ coords.yc[i] = coords.m
              /\ coords.dyc_dx[i] = SlopeForward(coords.m, coords.p, coords.x[i])
              /\ coords.dyc_dx[i] = SlopeAft(coords.m, coords.p, coords.x[i])
  /\ \A s \in DOMAIN geom :
        geom[s].status = "ok" =>
           \A i \in DOMAIN geom[s].x :
              geom[s].x[i] = R(4, 10) =>
                 /\ geom[s].yc[i] = SolverYcForward(geom[s].x[i])
                 /\ geom[s].yc[i] = SolverYcAft(geom[s].x[i])

\* a cambered section was generated with a chord sample exactly at x = p
C9_SampleAtSplit ==
  /\ coords.status = "ok"
  /\ coords.m # RZero
  /\ \E i \in DOMAIN coords.x :
        coords.x[i] = coords.p /\ coords.branch[i] = "forward"

\* the solver's geometry agrees with the generator's
SameGeometry ==
  /\ geom[1].x = coords.x
  /\ geom[1].yc = coords.yc
  /\ geom[1].branch = coords.branch
  /\ geom[1].yt = coords.yt

C10_SolverGeometryMatches4412 ==
  (/\ coords.status = "ok"
   /\ geom[1].status = "ok"
   /\ number = <<"4", "4", "1", "2">>)
     => SameGeometry

====
